---- MODULE Spec2Model ----
(***************************************************************************)
(* Model of the JYSK stock and price monitor (src/app.py): the price      *)
(* extractor, the virtualized row scanner, the row classifier, the         *)
(* extraction orchestrator, the alert evaluator with its cooldown gate and *)
(* the batch driver.                                                       *)
(*                                                                         *)
(* Texts are sequences of one-character strings.  An Optional[T] value is  *)
(* a sequence of length at most one: << >> is None, <<v>> is the value v.  *)
(* Prices are exact decimals held as integers in thousandths of a          *)
(* currency unit (IEEE rounding of float arithmetic is not modelled).      *)
(***************************************************************************)
EXTENDS Integers, Sequences, FiniteSets, TLC

VARIABLES
    pricePage,      \* the page handed to extract_price
    priceResult,    \* Optional[PriceInfo]: what extract_price returned
    config,         \* the configuration loaded at construction
    now,            \* int(time.time())
    alerts,         \* the alerts table, in insertion order
    outbox,         \* the messages the notification channel delivered
    call,           \* Optional: what the last check_alerts call decided
    calls,          \* number of check_alerts calls made so far
    scanPage,       \* the list page find_store_row scans
    scanTarget,     \* target_name
    scanPc,         \* where the scan is: "scan", "render", "returned", "raised"
    scanIter,       \* the pass of the for loop under way (1..12)
    scanRenders,    \* render-more actions taken (scrollBy or PageDown)
    scanPauses,     \* wait_for_timeout(350) pauses taken
    scanResult,     \* Optional: what find_store_row returned, << >> for None
    stockPage,      \* the list page handed to extract_stock_info
    stockResult,    \* Optional[List[StoreStock]]: what extract_stock_info returned
    products,       \* the products table, in insertion order
    snapshots,      \* the snapshots table, in insertion order
    queue,          \* the rows run_monitoring_cycle fetched for this cycle
    pos,            \* index in queue of the next product of the for loop
    pc,             \* where the driver is: "idle" or in the "loop"
    visited,        \* the products the loop of this cycle has processed
    last,           \* Optional: what the last pass of the loop did
    cycles,         \* monitoring cycles started
    classRow,       \* the row handed to extract_qty_from_row
    classResult,    \* Optional: the (qty, raw) extract_qty_from_row returned
    productSeq,     \* the AUTOINCREMENT sequence of the products table
    importFile,     \* Optional: the CSV file of the last import and the table it found
    importRaised,   \* the last import ended in an exception
    imports         \* import_products_from_csv calls made so far

priceVars == <<pricePage, priceResult>>
evalVars == <<config, now, alerts, outbox, call, calls>>
scanVars == <<scanPage, scanTarget, scanPc, scanIter, scanRenders, scanPauses, scanResult>>
stockVars == <<stockPage, stockResult>>
driverVars == <<products, snapshots, queue, pos, pc, visited, last, cycles>>
classVars == <<classRow, classResult>>
importVars == <<productSeq, importFile, importRaised, imports>>
vars == <<priceVars, evalVars, scanVars, stockVars, driverVars, classVars, importVars>>

----------------------------------------------------------------------------
(* Text helpers *)

Digits == {"0", "1", "2", "3", "4", "5", "6", "7", "8", "9"}

DigitVal(c) ==
    CASE c = "0" -> 0 [] c = "1" -> 1 [] c = "2" -> 2 [] c = "3" -> 3
      [] c = "4" -> 4 [] c = "5" -> 5 [] c = "6" -> 6 [] c = "7" -> 7
      [] c = "8" -> 8 [] c = "9" -> 9

DigitChar(d) ==
    CASE d = 0 -> "0" [] d = 1 -> "1" [] d = 2 -> "2" [] d = 3 -> "3"
      [] d = 4 -> "4" [] d = 5 -> "5" [] d = 6 -> "6" [] d = 7 -> "7"
      [] d = 8 -> "8" [] d = 9 -> "9"

\* int(): the value of a run of decimal digits
RECURSIVE IntOf(_)
IntOf(ds) ==
    IF ds = << >> THEN 0
    ELSE 10 * IntOf(SubSeq(ds, 1, Len(ds) - 1)) + DigitVal(ds[Len(ds)])

\* str(int) for a natural number
RECURSIVE StrOfNat(_)
StrOfNat(n) ==
    IF n < 10 THEN <<DigitChar(n)>>
    ELSE StrOfNat(n \div 10) \o <<DigitChar(n % 10)>>

\* the text a Python value of None has no methods on
NullText == <<"<None>">>

\* s in t (Python substring containment)
Contains(t, s) ==
    \E i \in 0..(Len(t) - Len(s)) : SubSeq(t, i + 1, i + Len(s)) = s

\* position of the first digit of t at or after i, 0 when there is none
FirstDigitPos(t) ==
    IF \E i \in 1..Len(t) : t[i] \in Digits
    THEN CHOOSE i \in 1..Len(t) :
             /\ t[i] \in Digits
             /\ \A j \in 1..(i - 1) : t[j] \notin Digits
    ELSE 0

\* end of the maximal run of digits that starts at i (t[i] is a digit)
DigitRunEnd(t, i) ==
    CHOOSE j \in i..Len(t) :
        /\ \A k \in i..j : t[k] \in Digits
        /\ (j = Len(t) \/ t[j + 1] \notin Digits)

----------------------------------------------------------------------------
(* Price values *)

\* thousandths per currency unit
Milli == 10 ^ 3

PriceInfo(current, original, on_sale) ==
    [current_price |-> current, original_price |-> original, is_on_sale |-> on_sale]

\* PriceInfo(0.0): the dataclass defaults
PriceInfo0 == PriceInfo(0, << >>, FALSE)

\* text.replace(',', '.')
ReplaceComma(t) == [i \in 1..Len(t) |-> IF t[i] = "," THEN "." ELSE t[i]]

\* end of the greedy (?:,\d+)* part that follows a digit run ending at j
RECURSIVE CommaGroupsEnd(_, _)
CommaGroupsEnd(t, j) ==
    IF j + 2 <= Len(t) /\ t[j + 1] = "," /\ t[j + 2] \in Digits
    THEN CommaGroupsEnd(t, DigitRunEnd(t, j + 2))
    ELSE j

\* re.search(r'(\d+(?:,\d+)*(?:\.\d+)?)', t): the first match, << >> when none
PriceRegexSearch(t) ==
    LET i == FirstDigitPos(t) IN
    IF i = 0 THEN << >>
    ELSE LET e1 == DigitRunEnd(t, i)
             e2 == CommaGroupsEnd(t, e1)
             e3 == IF e2 + 2 <= Len(t) /\ t[e2 + 1] = "." /\ t[e2 + 2] \in Digits
                   THEN DigitRunEnd(t, e2 + 2)
                   ELSE e2
         IN <<SubSeq(t, i, e3)>>

\* float(s) of a regex match, in thousandths; << >> when float raises ValueError
ToFloat(s) ==
    IF \E i \in 1..Len(s) : s[i] = "," THEN << >>
    ELSE LET e == DigitRunEnd(s, 1)
             frac == IF e < Len(s) THEN SubSeq(s, e + 2, Len(s)) ELSE << >>
             pad == SubSeq(frac \o <<"0", "0", "0">>, 1, 3)
         IN <<IntOf(SubSeq(s, 1, e)) * Milli + IntOf(pad)>>

\* replace(',', '.') BEFORE the search, as the source applies them
PriceSearchInput(text) == ReplaceComma(text)

\* float(re.search(...).group(1)) of text.replace(',', '.');
\* << >> when the expression raises (None text, no match, ValueError)
ParsePrice(text) ==
    IF text = NullText THEN << >>
    ELSE LET m == PriceRegexSearch(PriceSearchInput(text)) IN
         IF m = << >> THEN << >> ELSE ToFloat(m[1])

\* str(x) of a float with at most three decimals: shortest repr, at least
\* one digit after the point
FormatPrice(v) ==
    LET f == v % Milli
        d1 == f \div 100
        d2 == (f \div 10) % 10
        d3 == f % 10
        frac == IF d3 # 0 THEN <<DigitChar(d1), DigitChar(d2), DigitChar(d3)>>
                ELSE IF d2 # 0 THEN <<DigitChar(d1), DigitChar(d2)>>
                ELSE <<DigitChar(d1)>>
    IN StrOfNat(v \div Milli) \o <<".">> \o frac

----------------------------------------------------------------------------
(* Price extractor *)

\* a query_selector result: << >> when no element matches, <<text>> for an
\* element whose text_content() is text (NullText when it returns None)
Absent == << >>

\* page.query_selector('.ssr-product-price.normalprice ..., .ssr-product-price__value'):
\* the first element in document order that matches either alternative
RegularPriceElement(page) ==
    IF page.normal = Absent THEN page.plain
    ELSE IF page.plain = Absent THEN page.normal
    ELSE IF page.plainFirst THEN page.plain ELSE page.normal

\* the try body of extract_price raises: a price text that is read does not
\* parse (text_content() is None, no numeric run, or float() rejects it)
PriceExtractionRaises(page) ==
    IF page.promo # Absent
    THEN \/ ParsePrice(page.promo[1]) = << >>
         \/ page.normal # Absent /\ ParsePrice(page.normal[1]) = << >>
    ELSE /\ RegularPriceElement(page) # Absent
         /\ ParsePrice(RegularPriceElement(page)[1]) = << >>

extract_price(page) ==
    IF PriceExtractionRaises(page)
    THEN \* except Exception: return PriceInfo(0.0)
         PriceInfo0
    ELSE IF page.promo # Absent
    THEN LET promo_price == ParsePrice(page.promo[1])
             original_price == IF page.normal # Absent
                               THEN ParsePrice(page.normal[1])
                               ELSE << >>
         IN PriceInfo(promo_price[1], original_price, TRUE)
    ELSE LET price_element == RegularPriceElement(page) IN
         IF price_element # Absent
         THEN PriceInfo(ParsePrice(price_element[1])[1], << >>, FALSE)
         ELSE PriceInfo0

----------------------------------------------------------------------------
(* Text normalizer *)

UpperLetters ==
    <<"A", "B", "C", "D", "E", "F", "G", "H", "I", "J", "K", "L", "M",
      "N", "O", "P", "Q", "R", "S", "T", "U", "V", "W", "X", "Y", "Z">>

LowerLetters ==
    <<"a", "b", "c", "d", "e", "f", "g", "h", "i", "j", "k", "l", "m",
      "n", "o", "p", "q", "r", "s", "t", "u", "v", "w", "x", "y", "z">>

\* the characters outside ASCII are written as tokens: "e_acute" is U+00E9,
\* "E_ACUTE" is U+00C9, "bullet" is U+2022
Whitespace == {" ", "\n", "\t"}

\* str.lower() of one character
LowerChar(c) ==
    IF \E i \in 1..Len(UpperLetters) : UpperLetters[i] = c
    THEN LowerLetters[CHOOSE i \in 1..Len(UpperLetters) : UpperLetters[i] = c]
    ELSE IF c = "E_ACUTE" THEN "e_acute"
    ELSE c

Lower(t) == [i \in 1..Len(t) |-> LowerChar(t[i])]

\* unicodedata.normalize("NFKD", c).encode("ascii", "ignore"): the base
\* letter of an accented one, nothing for any other non-ASCII character
AsciiFold(c) ==
    CASE c = "e_acute" -> <<"e">>
      [] c = "E_ACUTE" -> <<"E">>
      [] c = "bullet" -> << >>
      [] OTHER -> <<c>>

RECURSIVE FoldText(_)
FoldText(t) ==
    IF t = << >> THEN << >> ELSE AsciiFold(Head(t)) \o FoldText(Tail(t))

\* str.strip()
RECURSIVE Strip(_)
Strip(t) ==
    IF t = << >> THEN t
    ELSE IF Head(t) \in Whitespace THEN Strip(Tail(t))
    ELSE IF t[Len(t)] \in Whitespace THEN Strip(SubSeq(t, 1, Len(t) - 1))
    ELSE t

\* _norm(s): s is an Optional text, None counts as ""
_norm(s) ==
    LET text == IF s = << >> THEN << >> ELSE s[1]
    IN Strip(Lower(FoldText(text)))

----------------------------------------------------------------------------
(* The store list of the drawer *)

\* A row of the list:
\*   text       Optional text: inner_text() during the scan, << >> when the
\*              row is stale and reading it throws;
\*   staleLater the row was readable during the scan and throws when
\*              extract_qty_from_row reads its text;
\*   qty, stock, span
\*              what the three selectors of extract_qty_from_row locate:
\*              << >> when locating throws, else <<els>> with els the
\*              sequence of the located elements, each an Optional text
\*              (<< >> when reading the element throws).
\* A list page:
\*   list       every row of the list, in order;
\*   scrollable container.evaluate(scrollBy) works (else PageDown is sent);
\*   scanFault  the pass of find_store_row at which the automation layer
\*              raises out of the scan (0: never);
\*   captureFails  page.screenshot raises.

\* rows of the list that are rendered at a time
Window == 1

Min(a, b) == IF a <= b THEN a ELSE b
Max(a, b) == IF a >= b THEN a ELSE b

\* the rows rendered after `renders` render-more actions: each one scrolls
\* the container by one viewport, and the scroll stops at the end of the list
RenderedRows(page, renders) ==
    LET off == Min(renders * Window, Max(0, Len(page.list) - Window))
    IN SubSeq(page.list, off + 1, Min(off + Window, Len(page.list)))

----------------------------------------------------------------------------
(* Virtualized row scanner *)

\* for _ in range(12)
ScanPasses == 12

\* target_norm in txt, for a row whose text was read
RowMatches(row, target_norm) ==
    /\ row.text # << >>
    /\ Contains(_norm(row.text), target_norm)

\* a pass that takes a row it cannot read for a match
ScanPass_staleMatches(rows, target_norm) ==
    IF \E i \in 1..Len(rows) : rows[i].text = << >> \/ RowMatches(rows[i], target_norm)
    THEN CHOOSE i \in 1..Len(rows) :
             /\ (rows[i].text = << >> \/ RowMatches(rows[i], target_norm))
             /\ \A j \in 1..(i - 1) :
                    ~(rows[j].text = << >> \/ RowMatches(rows[j], target_norm))
    ELSE 0

\* one pass over the rendered rows: the index of the first row whose
\* normalized text contains target_norm, 0 when there is none; a row that
\* throws on reading is skipped
ScanPass(rows, target_norm) ==
    IF \E i \in 1..Len(rows) : RowMatches(rows[i], target_norm)
    THEN CHOOSE i \in 1..Len(rows) :
             /\ RowMatches(rows[i], target_norm)
             /\ \A j \in 1..(i - 1) : ~RowMatches(rows[j], target_norm)
    ELSE 0

\* the loop of find_store_row from pass k on; passes and renders count the
\* scan passes made and the render-more actions taken
RECURSIVE FindFrom(_, _, _)
FindFrom(page, target_norm, k) ==
    IF k > ScanPasses
    THEN [outcome |-> "None", row |-> << >>, passes |-> k - 1, renders |-> k - 1]
    ELSE IF page.scanFault = k
    THEN [outcome |-> "raised", row |-> << >>, passes |-> k, renders |-> k - 1]
    ELSE LET rows == RenderedRows(page, k - 1)
             m == ScanPass(rows, target_norm)
         IN IF m # 0
            THEN [outcome |-> "row", row |-> <<rows[m]>>, passes |-> k, renders |-> k - 1]
            ELSE FindFrom(page, target_norm, k + 1)

find_store_row(page, target_name) == FindFrom(page, _norm(<<target_name>>), 1)

----------------------------------------------------------------------------
(* Row classifier *)

\* range(min(count, 8))
MaxSubElements == 8

\* ["épuisé", "rupture", "pas de stock", "out of stock"]
UnavailableKeywords ==
    {<<"e_acute", "p", "u", "i", "s", "e_acute">>,
     <<"r", "u", "p", "t", "u", "r", "e">>,
     <<"p", "a", "s", " ", "d", "e", " ", "s", "t", "o", "c", "k">>,
     <<"o", "u", "t", " ", "o", "f", " ", "s", "t", "o", "c", "k">>}

\* ["en stock", "disponible", "available"]
AvailableKeywords ==
    {<<"e", "n", " ", "s", "t", "o", "c", "k">>,
     <<"d", "i", "s", "p", "o", "n", "i", "b", "l", "e">>,
     <<"a", "v", "a", "i", "l", "a", "b", "l", "e">>}

\* re.search(r"(\d+)", t): the first run of digits of t, << >> when none
DigitSearch(t) ==
    LET i == FirstDigitPos(t) IN
    IF i = 0 THEN << >> ELSE <<SubSeq(t, i, DigitRunEnd(t, i))>>

\* the stripped texts one selector yields, in order: nothing when locating
\* throws, at most the first MaxSubElements elements, skipping those that
\* throw on reading
RECURSIVE ReadableTexts(_)
ReadableTexts(els) ==
    IF els = << >> THEN << >>
    ELSE (IF Head(els) = << >> THEN << >> ELSE <<Strip(Head(els)[1])>>)
         \o ReadableTexts(Tail(els))

SelectorTexts(sel) ==
    IF sel = << >> THEN << >>
    ELSE ReadableTexts(SubSeq(sel[1], 1, Min(Len(sel[1]), MaxSubElements)))

\* the texts the three selectors yield, in strategy order
\* [".qty, [data-testid*='qty'], .badge", ".stock, .availability", "span, div"]
SubElementTexts(row) ==
    SelectorTexts(row.qty) \o SelectorTexts(row.stock) \o SelectorTexts(row.span)

\* the keyword tiers on the lower-cased row text
KeywordQty(txt) ==
    IF \E k \in UnavailableKeywords : Contains(txt, k) THEN <<0>>
    ELSE IF \E k \in AvailableKeywords : Contains(txt, k) THEN <<1>>
    ELSE << >>

\* extract_qty_from_row with the keyword tiers consulted before the digits
extract_qty_from_row_keywordsFirst(row) ==
    LET ts == SubElementTexts(row)
        hits == {i \in 1..Len(ts) : DigitSearch(ts[i]) # << >>}
        txt == IF row.staleLater \/ row.text = << >>
               THEN << >>
               ELSE Lower(row.text[1])
    IN IF KeywordQty(txt) # << >>
       THEN [qty |-> KeywordQty(txt), raw |-> txt]
       ELSE IF hits # {}
       THEN LET i == CHOOSE h \in hits : \A g \in hits : h <= g
            IN [qty |-> <<IntOf(DigitSearch(ts[i])[1])>>, raw |-> ts[i]]
       ELSE [qty |-> << >>, raw |-> txt]

\* extract_qty_from_row(row) -> (qty, raw)
extract_qty_from_row(row) ==
    LET ts == SubElementTexts(row)
        hits == {i \in 1..Len(ts) : DigitSearch(ts[i]) # << >>}
    IN IF hits # {}
       THEN LET i == CHOOSE h \in hits : \A g \in hits : h <= g
            IN [qty |-> <<IntOf(DigitSearch(ts[i])[1])>>, raw |-> ts[i]]
       ELSE LET txt == IF row.staleLater \/ row.text = << >>
                       THEN << >>
                       ELSE Lower(row.text[1])
            IN [qty |-> KeywordQty(txt), raw |-> txt]

----------------------------------------------------------------------------
(* Stock extraction *)

StoreStock(store_name, qty, status, raw_text) ==
    [store_name |-> store_name, qty |-> qty, status |-> status, raw_text |-> raw_text]

\* the status with a count of zero taken for stock
StockStatus_zeroInStock(qty) ==
    IF qty = << >> THEN "unknown"
    ELSE IF qty[1] >= 0 THEN "in_stock" ELSE "out_of_stock"

\* status = "unknown"; if qty is not None: "in_stock" if qty > 0 else "out_of_stock"
StockStatus(qty) ==
    IF qty = << >> THEN "unknown"
    ELSE IF qty[1] > 0 THEN "in_stock" ELSE "out_of_stock"

\* the body of the per-store loop: the StoreStock appended for store_name
StoreLookup(page, store_name) ==
    LET found == find_store_row(page, store_name) IN
    IF found.outcome = "raised"
    THEN StoreStock(store_name, << >>, "unknown", << >>)
    ELSE IF found.outcome = "None"
    THEN \* the capture of the page either succeeds or raises into the
         \* except branch: both append the same StoreStock, once
         StoreStock(store_name, << >>, "unknown", << >>)
    ELSE LET r == extract_qty_from_row(found.row[1])
         IN StoreStock(store_name, r.qty, StockStatus(r.qty), <<r.raw>>)

\* extract_stock_info with a store that yields no quantity left out
extract_stock_info_skipsUnknown(page, target_stores) ==
    SelectSeq([i \in 1..Len(target_stores) |-> StoreLookup(page, target_stores[i])],
              LAMBDA st : st.status # "unknown")

\* extract_stock_info(page), target_stores the names of config['stores']
extract_stock_info(page, target_stores) ==
    [i \in 1..Len(target_stores) |-> StoreLookup(page, target_stores[i])]

----------------------------------------------------------------------------
(* Store drawer and extraction orchestrator *)

\* open_store_drawer(page): some strategy locates the 'X magasins' control
\* (page.button) and, after the click, the overlay becomes visible before
\* the timeout (page.overlay)
open_store_drawer(page) == page.button /\ page.overlay

\* the steps of scrape_product_info an exception can escape from, in order;
\* extract_price catches its own (page.raises names the step, "none" when
\* nothing escapes)
ScrapeSteps == <<"goto", "drawer", "city", "stock">>

\* what scrape_product_info returns, and whether its except branch ran
Scraped(stock_info, price_info, caught) ==
    [stock_info |-> stock_info, price_info |-> price_info, caught |-> caught]

\* scrape_product_info with an except branch that keeps the price already
\* extracted
scrape_product_info_keepsPrice(page, target_stores) ==
    IF page.raises = "goto"
    THEN Scraped(<< >>, PriceInfo0, TRUE)
    ELSE LET price_info == extract_price(page) IN
         IF page.raises = "drawer"
         THEN Scraped(<< >>, price_info, TRUE)
         ELSE IF ~open_store_drawer(page)
         THEN Scraped(<< >>, price_info, FALSE)
         ELSE IF page.raises \in {"city", "stock"}
         THEN Scraped(<< >>, price_info, TRUE)
         ELSE Scraped(extract_stock_info(page, target_stores), price_info, FALSE)

\* scrape_product_info with a drawer failure answered by the sentinel price
scrape_product_info_drawerSentinel(page, target_stores) ==
    IF page.raises = "goto"
    THEN Scraped(<< >>, PriceInfo0, TRUE)
    ELSE LET price_info == extract_price(page) IN
         IF page.raises = "drawer"
         THEN Scraped(<< >>, PriceInfo0, TRUE)
         ELSE IF ~open_store_drawer(page)
         THEN Scraped(<< >>, PriceInfo0, FALSE)
         ELSE IF page.raises \in {"city", "stock"}
         THEN Scraped(<< >>, PriceInfo0, TRUE)
         ELSE Scraped(extract_stock_info(page, target_stores), price_info, FALSE)

\* scrape_product_info(page, product) -> (stock_info, price_info)
scrape_product_info(page, target_stores) ==
    IF page.raises = "goto"
    THEN Scraped(<< >>, PriceInfo0, TRUE)
    ELSE LET price_info == extract_price(page) IN
         IF page.raises = "drawer"
         THEN Scraped(<< >>, PriceInfo0, TRUE)
         ELSE IF ~open_store_drawer(page)
         THEN Scraped(<< >>, price_info, FALSE)
         ELSE IF page.raises \in {"city", "stock"}
         THEN Scraped(<< >>, PriceInfo0, TRUE)
         ELSE Scraped(extract_stock_info(page, target_stores), price_info, FALSE)

----------------------------------------------------------------------------
(* Alert evaluator *)

\* min_hours * 3600
SecondsPerHour == 3600

\* trigger = diff_abs >= 0.01, in thousandths
AbsoluteFloor == Milli \div 100

\* config['stores'] as a sequence of [name, stock_threshold]
StoreNames(cfg) == [i \in 1..Len(cfg.stores) |-> cfg.stores[i].name]

\* should_send_alert with the window taken in minutes
should_send_alert_minutes(table, cfg, t, product_id, store_name, alert_type) ==
    LET cutoff_time == t - cfg.min_hours * 60
    IN \A i \in 1..Len(table) :
           ~(/\ table[i].product_id = product_id
             /\ table[i].store_name = store_name
             /\ table[i].alert_type = alert_type
             /\ table[i].sent_at > cutoff_time)

\* should_send_alert: no row of the same product, store and type was sent
\* after the cutoff
should_send_alert(table, cfg, t, product_id, store_name, alert_type) ==
    LET cutoff_time == t - cfg.min_hours * SecondsPerHour
        count == Cardinality({i \in 1..Len(table) :
                     /\ table[i].product_id = product_id
                     /\ table[i].store_name = store_name
                     /\ table[i].alert_type = alert_type
                     /\ table[i].sent_at > cutoff_time})
    IN count = 0

\* record_alert: the row appended to the alerts table.  The columns no query
\* of the program reads (id, prev_value, curr_value, channel) are not carried;
\* the values of an alert are in the record of the call that emitted it
AlertRow(product_id, store_name, alert_type, t) ==
    [product_id |-> product_id, store_name |-> store_name,
     alert_type |-> alert_type, sent_at |-> t]

\* pct_threshold: << >> (None) unless price monitoring is enabled; the
\* threshold key defaults to 0; a value float() rejects leaves None
PctThreshold(cfg) ==
    IF cfg.price_enabled
    THEN IF cfg.threshold.key = "missing" THEN <<0>>
         ELSE IF cfg.threshold.key = "text" THEN << >>
         ELSE <<cfg.threshold.value>>
    ELSE << >>

\* the gate with the sentinel let through
PriceGate_nonnegative(current_price, reference_price) ==
    current_price >= 0 /\ reference_price > 0

\* current_price > 0 and reference_price > 0
PriceGate(current_price, reference_price) ==
    current_price > 0 /\ reference_price > 0

AbsDiff(a, b) == IF a >= b THEN a - b ELSE b - a

\* the percentage comparison made strict
PercentReached_strict(diff_abs, reference_price, pct_threshold) ==
    diff_abs * 100 > pct_threshold * reference_price

\* diff_pct >= pct_threshold with diff_pct = diff_abs / reference_price * 100
PercentReached(diff_abs, reference_price, pct_threshold) ==
    diff_abs * 100 >= pct_threshold * reference_price

\* trigger, computed when the gate holds
PriceTrigger(cfg, current_price, reference_price) ==
    LET diff_abs == AbsDiff(current_price, reference_price)
        pct_threshold == PctThreshold(cfg)
    IN IF pct_threshold = << >>
       THEN diff_abs >= AbsoluteFloor
       ELSE PercentReached(diff_abs, reference_price, pct_threshold[1])

\* next((s['stock_threshold'] for s in stores if s['name'] == name), None)
StoreThreshold(cfg, store_name) ==
    LET hits == {i \in 1..Len(cfg.stores) : cfg.stores[i].name = store_name}
    IN IF hits = {} THEN << >>
       ELSE <<cfg.stores[CHOOSE h \in hits : \A g \in hits : h <= g].stock_threshold>>

\* the stock comparison made inclusive
BelowLimit_inclusive(cfg, stock) ==
    \E i \in 1..Len(cfg.stores) :
        /\ cfg.stores[i].name = stock.store_name
        /\ stock.qty # << >>
        /\ stock.qty[1] <= cfg.stores[i].stock_threshold

\* store_threshold and stock.qty is not None and stock.qty < store_threshold
BelowLimit(cfg, stock) ==
    LET store_threshold == StoreThreshold(cfg, stock.store_name)
    IN /\ store_threshold # << >>
       /\ store_threshold[1] # 0
       /\ stock.qty # << >>
       /\ stock.qty[1] < store_threshold[1]

\* stock_below_limit after the loop over stock_info
StockBelowLimit(cfg, stock_info) ==
    \E i \in 1..Len(stock_info) : BelowLimit(cfg, stock_info[i])

\* send_telegram_message: the message is delivered iff the channel is
\* enabled, has its credentials and the request is answered with 200;
\* cfg.telegram is "ok", "disabled", "no_credentials" or "http_error"
Delivered(cfg) == cfg.telegram = "ok"

\* check_alerts with record_alert called only for a delivered message
check_alerts_recordsDelivered(table, box, cfg, t, product_id, stock_info, price_info, reference_price, jumia_sku) ==
    LET gate == PriceGate(price_info.current_price, reference_price)
        trigger == gate /\ PriceTrigger(cfg, price_info.current_price, reference_price)
        price_ok == should_send_alert(table, cfg, t, product_id, "price_change", "price_change")
        price_alert == trigger /\ price_ok
        table1 == IF price_alert /\ Delivered(cfg)
                  THEN Append(table, AlertRow(product_id, "price_change", "price_change", t))
                  ELSE table
        outbox1 == IF price_alert /\ Delivered(cfg)
                   THEN Append(box, [product_id |-> product_id, sku |-> jumia_sku,
                                        kind |-> "price_change", at |-> t])
                   ELSE box
        below == StockBelowLimit(cfg, stock_info)
        stock_ok == should_send_alert(table1, cfg, t, product_id, "stock", "stock_low")
        stock_alert == below /\ stock_ok
        table2 == IF stock_alert /\ Delivered(cfg)
                  THEN Append(table1, AlertRow(product_id, "stock", "stock_low", t))
                  ELSE table1
        outbox2 == IF stock_alert /\ Delivered(cfg)
                   THEN Append(outbox1, [product_id |-> product_id, sku |-> jumia_sku,
                                         kind |-> "stock_low", at |-> t])
                   ELSE outbox1
    IN [alerts |-> table2, outbox |-> outbox2,
        decided |-> [product_id |-> product_id, stock_info |-> stock_info,
                     price_info |-> price_info, reference_price |-> reference_price,
                     gate |-> gate, trigger |-> trigger,
                     price_permitted |-> price_ok, price_alert |-> price_alert,
                     below |-> below, stock_permitted |-> stock_ok,
                     stock_alert |-> stock_alert]]

\* check_alerts: the alerts table and the delivered messages after the call,
\* with what the call decided.  table, box: the alerts table and the
\* messages delivered so far (a message names the SKU); t: time.time()
check_alerts(table, box, cfg, t, product_id, stock_info, price_info, reference_price, jumia_sku) ==
    LET gate == PriceGate(price_info.current_price, reference_price)
        trigger == gate /\ PriceTrigger(cfg, price_info.current_price, reference_price)
        price_ok == should_send_alert(table, cfg, t, product_id, "price_change", "price_change")
        price_alert == trigger /\ price_ok
        table1 == IF price_alert
                  THEN Append(table, AlertRow(product_id, "price_change", "price_change", t))
                  ELSE table
        outbox1 == IF price_alert /\ Delivered(cfg)
                   THEN Append(box, [product_id |-> product_id, sku |-> jumia_sku,
                                        kind |-> "price_change", at |-> t])
                   ELSE box
        below == StockBelowLimit(cfg, stock_info)
        stock_ok == should_send_alert(table1, cfg, t, product_id, "stock", "stock_low")
        stock_alert == below /\ stock_ok
        table2 == IF stock_alert
                  THEN Append(table1, AlertRow(product_id, "stock", "stock_low", t))
                  ELSE table1
        outbox2 == IF stock_alert /\ Delivered(cfg)
                   THEN Append(outbox1, [product_id |-> product_id, sku |-> jumia_sku,
                                         kind |-> "stock_low", at |-> t])
                   ELSE outbox1
    IN [alerts |-> table2, outbox |-> outbox2,
        decided |-> [product_id |-> product_id, stock_info |-> stock_info,
                     price_info |-> price_info, reference_price |-> reference_price,
                     gate |-> gate, trigger |-> trigger,
                     price_permitted |-> price_ok, price_alert |-> price_alert,
                     below |-> below, stock_permitted |-> stock_ok,
                     stock_alert |-> stock_alert]]

----------------------------------------------------------------------------
(* Snapshot store and batch driver *)

\* save_snapshot: the rows inserted, one per StoreStock (none when stock_info
\* is empty), all stamped with the same reading of the clock
save_snapshot(product_id, stock_info, price_info, t) ==
    [i \in 1..Len(stock_info) |->
        [product_id |-> product_id, store_name |-> stock_info[i].store_name,
         qty |-> stock_info[i].qty, status |-> stock_info[i].status,
         price |-> price_info.current_price,
         original_price |-> price_info.original_price,
         is_on_sale |-> price_info.is_on_sale, fetched_at |-> t,
         raw |-> stock_info[i].raw_text]]

\* ORDER BY jumia_sku (jumia_sku is UNIQUE; a sku is modelled by its rank
\* in the collation)
RECURSIVE OrderBySku(_)
OrderBySku(rows) ==
    IF rows = {} THEN << >>
    ELSE LET first == CHOOSE r \in rows : \A q \in rows : r.jumia_sku <= q.jumia_sku
         IN <<first>> \o OrderBySku(rows \ {first})

\* SELECT ... FROM products WHERE active = 1 ORDER BY jumia_sku
ActiveProducts(table) ==
    OrderBySku({table[i] : i \in {j \in 1..Len(table) : table[j].active}})

\* await asyncio.sleep(2): the clock advances at least this much while one
\* product is processed
SettleSeconds == 2

----------------------------------------------------------------------------
(* CSV import *)

\* a row of the products table
Product(id, jumia_sku, reference_price, active) ==
    [id |-> id, jumia_sku |-> jumia_sku, reference_price |-> reference_price,
     active |-> active]

\* float(ref_clean) for the plain decimal texts of the inputs (digits with
\* an optional fraction), in thousandths; << >> when it raises ValueError
FloatOfField(ref_clean) ==
    IF PriceRegexSearch(ref_clean) = <<ref_clean>> THEN ToFloat(ref_clean) ELSE << >>

\* the row passes both checks of the loop: no field is empty after strip()
\* (a sku is its rank in the collation, 0 for the empty text) and the
\* reference price converts
RowImported(row) ==
    /\ row.jumia_sku # 0 /\ row.jysk_url /\ row.reference_price # << >>
    /\ FloatOfField(ReplaceComma(row.reference_price)) # << >>

\* the INSERTs of the loop over the rows from index k on, given the rows
\* inserted so far; raised when an INSERT violates UNIQUE(jumia_sku)
RECURSIVE InsertRows(_, _, _, _)
InsertRows(file, k, inserted, seq) ==
    IF k > Len(file) THEN [products |-> inserted, productSeq |-> seq, raised |-> FALSE]
    ELSE IF ~RowImported(file[k]) THEN InsertRows(file, k + 1, inserted, seq)
    ELSE IF \E i \in 1..Len(inserted) : inserted[i].jumia_sku = file[k].jumia_sku
    THEN [products |-> inserted, productSeq |-> seq, raised |-> TRUE]
    ELSE InsertRows(file, k + 1,
                    Append(inserted,
                           Product(seq + 1, file[k].jumia_sku,
                                   FloatOfField(ReplaceComma(file[k].reference_price))[1],
                                   TRUE)),
                    seq + 1)

\* import_products_from_csv with the DELETE left out
import_products_from_csv_keepsOld(table, seq, file) ==
    LET done == InsertRows(file, 1, table, seq)
    IN IF done.raised
       THEN [products |-> table, productSeq |-> seq, raised |-> TRUE]
       ELSE done

\* import_products_from_csv: the committed state of the products table and
\* of its AUTOINCREMENT sequence after the call.  DELETE FROM products is
\* committed first; the INSERTs are committed together after the loop, so
\* an IntegrityError leaves the table empty and the sequence as it was
import_products_from_csv(table, seq, file) ==
    LET done == InsertRows(file, 1, << >>, seq)
    IN IF done.raised
       THEN [products |-> << >>, productSeq |-> seq, raised |-> TRUE]
       ELSE done

----------------------------------------------------------------------------
(* Inputs of the price extractor *)

T_1234_50_thousands == <<"1", ",", "2", "3", "4", ".", "5", "0">>
T_1234_50_comma == <<"1", "2", "3", "4", ",", "5", "0">>
T_179 == <<"1", "7", "9">>
T_199_00_DH == <<"1", "9", "9", ".", "0", "0", " ", "D", "H">>
T_DH_104 == <<"D", "H", " ", "1", "0", "4">>
T_0 == <<"0">>
T_words == <<"N", "/", "A">>
T_dot_5 == <<"9", ".", " ", "5">>

PriceTexts ==
    {T_1234_50_thousands, T_1234_50_comma, T_179, T_199_00_DH, T_DH_104,
     T_0, T_words, T_dot_5, << >>, NullText}

PriceElements == {Absent} \cup {<<t>> : t \in PriceTexts}

\* plainFirst: a plain price value element precedes the normal-price one in
\* document order
PricePages ==
    [promo : PriceElements, normal : PriceElements, plain : PriceElements,
     plainFirst : BOOLEAN]

NoPricePage == [promo |-> Absent, normal |-> Absent, plain |-> Absent, plainFirst |-> FALSE]

----------------------------------------------------------------------------
(* Configurations and inputs of the evaluator *)

Viva == <<"V", "i", "v", "a">>
Aeria == <<"A", "e", "r", "i", "a">>
Depot == <<"D", "e", "p", "o", "t">>

\* config['stores']: the thresholds of the alert text (limit: 6, limit: 8)
\* and a store whose threshold is 0
ConfiguredStores ==
    <<[name |-> Viva, stock_threshold |-> 6],
      [name |-> Aeria, stock_threshold |-> 8],
      [name |-> Depot, stock_threshold |-> 0]>>

\* price_monitoring: disabled, or enabled with the threshold key missing,
\* a number, or a text float() rejects
PriceModes ==
    {[price_enabled |-> FALSE, threshold |-> [key |-> "number", value |-> 5]],
     [price_enabled |-> TRUE, threshold |-> [key |-> "number", value |-> 5]],
     [price_enabled |-> TRUE, threshold |-> [key |-> "number", value |-> 0]],
     [price_enabled |-> TRUE, threshold |-> [key |-> "missing", value |-> 0]],
     [price_enabled |-> TRUE, threshold |-> [key |-> "text", value |-> 0]]}

\* largest min_hours_between_same_alert of the configurations
MaxMinHours == 1

\* every price mode and window with the channel working or disabled, and
\* the channel without credentials or answering with an error
Configs ==
    {[price_enabled |-> m.price_enabled, threshold |-> m.threshold,
      min_hours |-> h, telegram |-> tg, stores |-> ConfiguredStores] :
        m \in PriceModes, h \in 0..MaxMinHours, tg \in {"ok", "disabled"}}
    \cup {[price_enabled |-> FALSE, threshold |-> [key |-> "number", value |-> 5],
           min_hours |-> 1, telegram |-> tg, stores |-> ConfiguredStores] :
             tg \in {"no_credentials", "http_error"}}

ProductIds == {1, 2}

\* (current price, reference price) in thousandths
PriceCases ==
    {<<0, 100000>>, <<100000, 100000>>, <<100010, 100000>>, <<100009, 100000>>,
     <<104000, 100000>>, <<105000, 100000>>, <<106000, 100000>>,
     <<94000, 100000>>, <<106000, 0>>}

Known(store_name, q) == StoreStock(store_name, <<q>>, StockStatus(<<q>>), << >>)
Unknown(store_name) == StoreStock(store_name, << >>, "unknown", << >>)

StockCases ==
    {<< >>,
     <<Known(Viva, 3), Known(Aeria, 10)>>,
     <<Known(Viva, 6), Known(Aeria, 8)>>,
     <<Known(Viva, 5), Known(Aeria, 0)>>,
     <<Unknown(Viva), Unknown(Aeria)>>,
     <<Known(Viva, 10), Known(Aeria, 10), Known(Depot, 0)>>}

----------------------------------------------------------------------------
(* Inputs of the scanner and of the classifier *)

NoElements == <<<< >>>>
Row(text, qty, stock, span, staleLater) ==
    [text |-> text, qty |-> qty, stock |-> stock, span |-> span,
     staleLater |-> staleLater]

\* "VIVA 3 pcs disponible", its badge reading "3 pcs"
RowViva3 ==
    Row(<<<<"V", "I", "V", "A", " ", "3", " ", "p", "c", "s", " ", "d", "i", "s", "p", "o", "n", "i", "b", "l", "e">>>>, <<<<<<<<" ", "3", " ", "p", "c", "s", " ">>>>>>>>,
        NoElements, NoElements, FALSE)
\* "Aéria épuisé": an accented name and keyword, no digit anywhere
RowAeriaSoldOut ==
    Row(<<<<"A", "e_acute", "r", "i", "a", " ", "e_acute", "p", "u", "i", "s", "e_acute">>>>, NoElements, <<<<<<<<"e_acute", "p", "u", "i", "s", "e_acute">>>>>>>>, NoElements, FALSE)
\* "aeria EN STOCK": locating the sub-elements throws
RowAeriaInStock ==
    Row(<<<<" ", "a", "e", "r", "i", "a", " ", "E", "N", " ", "S", "T", "O", "C", "K">>>>, << >>, << >>, << >>, FALSE)
\* a stale row: reading its text throws
RowStale == Row(<< >>, NoElements, NoElements, NoElements, FALSE)
\* "Viva": readable during the scan, stale when it is classified
RowVivaStaleLater ==
    Row(<<<<"V", "i", "v", "a">>>>, NoElements, <<<<<< >>>>>>, NoElements, TRUE)
\* "Depot 0" with the count in a span, after an element that throws
RowDepot0 ==
    Row(<<<<"D", "e", "p", "o", "t", " ", "0">>>>, NoElements, NoElements,
        <<<<<< >>, <<<<"D", "e", "p", "o", "t">>>>, <<<<"0">>>>>>>>, FALSE)
\* "Viva Park": no count and no keyword
RowVivaPlain ==
    Row(<<<<"V", "i", "v", "a", " ", "P", "a", "r", "k">>>>, NoElements, NoElements, <<<<<<<<"V", "i", "v", "a", " ", "P", "a", "r", "k">>>>>>>>, FALSE)

ListRows ==
    {RowViva3, RowAeriaSoldOut, RowAeriaInStock, RowStale, RowVivaStaleLater,
     RowDepot0, RowVivaPlain}

\* rows of a list
MaxList == 2

RECURSIVE SeqsUpTo(_, _)
SeqsUpTo(S, n) ==
    IF n = 0 THEN {<< >>}
    ELSE LET shorter == SeqsUpTo(S, n - 1)
         IN shorter \cup {Append(q, x) : q \in {r \in shorter : Len(r) = n - 1}, x \in S}

\* the passes at which the automation layer may raise out of a scan
FaultPasses == {0, 2, ScanPasses}

ListPages ==
    [list : SeqsUpTo(ListRows, MaxList), scrollable : BOOLEAN,
     scanFault : FaultPasses, captureFails : BOOLEAN]

NoListPage ==
    [list |-> << >>, scrollable |-> TRUE, scanFault |-> 0, captureFails |-> FALSE]

\* " AÉRIA ": the store name as a configuration may spell it
AeriaAccented == <<" ", "A", "E_ACUTE", "R", "I", "A", " ">>

TargetNames == {Viva, Aeria, AeriaAccented}

\* the facts handed to check_alerts: every price case with no stock facts,
\* every stock case with an unusable price, and the two rules together
FactCases ==
    {<<pcase, << >>>> : pcase \in PriceCases}
    \cup {<<<<0, 100000>>, st>> : st \in StockCases \ {<< >>}}
    \cup {<<<<106000, 100000>>, <<Known(Viva, 3), Known(Aeria, 10)>>>>,
          <<<<106000, 100000>>, <<Known(Viva, 6), Known(Aeria, 8)>>>>}

\* seconds that may pass between two readings of the clock
Elapsed == {SecondsPerHour - 1, SecondsPerHour}

\* check_alerts calls of a run
MaxCalls == 2

----------------------------------------------------------------------------
(* Inputs of the batch driver *)

T_199_00 == <<"1", "9", "9", ".", "0", "0">>

\* a product page: its price elements, its Click & Collect button and
\* drawer, its store list, and the step of scrape_product_info at which the
\* automation layer raises ("none" when it does not)
MonitorPage(promo, normal, plain, button, overlay, list, raises) ==
    [promo |-> promo, normal |-> normal, plain |-> plain, plainFirst |-> FALSE,
     button |-> button, overlay |-> overlay,
     list |-> list, scrollable |-> TRUE, scanFault |-> 0, captureFails |-> TRUE,
     raises |-> raises]

\* promo 179 against a normal price of 199, stores Viva (3 pcs), Aeria
\* (sold out) and Depot (0)
PageOk ==
    MonitorPage(<<T_179>>, <<T_199_00_DH>>, Absent, TRUE, TRUE,
                <<RowViva3, RowAeriaSoldOut, RowDepot0>>, "none")
PageGotoRaises ==
    MonitorPage(<<T_179>>, <<T_199_00_DH>>, Absent, TRUE, TRUE,
                <<RowViva3, RowAeriaSoldOut>>, "goto")
PageDrawerRaises ==
    MonitorPage(Absent, <<T_199_00>>, Absent, TRUE, TRUE, <<RowViva3>>, "drawer")
PageCityRaises ==
    MonitorPage(Absent, <<T_199_00>>, Absent, TRUE, TRUE, <<RowViva3>>, "city")
PageStockRaises ==
    MonitorPage(<<T_179>>, <<T_199_00_DH>>, Absent, TRUE, TRUE, <<RowViva3>>, "stock")
\* no 'X magasins' button, promo 179 against 199
PageNoButton ==
    MonitorPage(<<T_179>>, <<T_199_00_DH>>, Absent, FALSE, FALSE, << >>, "none")
\* the drawer never becomes visible, regular price 199.00
PageNoOverlay ==
    MonitorPage(Absent, Absent, <<T_199_00>>, TRUE, FALSE, << >>, "none")
\* no button and no price element
PageNoButtonNoPrice ==
    MonitorPage(Absent, Absent, Absent, FALSE, FALSE, << >>, "none")
\* the promo text is "N/A": price extraction raises; the drawer opens
PagePriceRaises ==
    MonitorPage(<<T_words>>, <<T_199_00_DH>>, Absent, TRUE, TRUE,
                <<RowViva3, RowAeriaInStock>>, "none")

\* the automation layer raises in the second pass of every scan
PageScanRaises == [PageOk EXCEPT !.scanFault = 2]

MonitorPages ==
    {PageOk, PageGotoRaises, PageDrawerRaises, PageCityRaises, PageStockRaises,
     PageNoButton, PageNoOverlay, PageNoButtonNoPrice, PagePriceRaises,
     PageScanRaises}

\* products tables: two active products whose sku order reverses their id
\* order; an inactive product before an active one; no active product
ProductTables ==
    {<<Product(1, 20, 199 * Milli, TRUE), Product(2, 10, 100 * Milli, TRUE)>>,
     <<Product(1, 10, 199 * Milli, FALSE), Product(2, 30, 179 * Milli, TRUE)>>,
     <<Product(1, 10, 199 * Milli, FALSE)>>}

DriverConfigs ==
    {c \in Configs :
        \/ ~c.price_enabled /\ c.min_hours = 1 /\ c.telegram = "ok"
        \/ /\ c.price_enabled /\ c.threshold = [key |-> "number", value |-> 5]
           /\ c.min_hours = 0 /\ c.telegram = "disabled"}

\* monitoring cycles of a run
MaxCycles == 1

----------------------------------------------------------------------------
(* Inputs of the classifier *)

T_3_pcs == <<" ", "3", " ", "p", "c", "s", " ">>
T_12 == <<"1", "2">>
T_7 == <<"7">>
T_disponible == <<"d", "i", "s", "p", "o", "n", "i", "b", "l", "e">>
T_rupture == <<"R", "u", "p", "t", "u", "r", "e">>
T_Viva_Park == <<"V", "i", "v", "a", " ", "P", "a", "r", "k">>

\* inner_text() of the row: it throws, or it carries an available keyword,
\* an unavailable keyword (upper case), or none
ClassRowTexts ==
    {<< >>,
     <<<<"V", "I", "V", "A", " ", "3", " ", "p", "c", "s", " ", "d", "i", "s", "p", "o", "n", "i", "b", "l", "e">>>>,
     <<<<"A", "e", "r", "i", "a", " ", "R", "U", "P", "T", "U", "R", "E">>>>,
     <<T_Viva_Park>>}

\* what a selector yields: locating throws (<< >>), or a list of elements,
\* each throwing on reading (<< >>) or readable
ClassQtySelectors ==
    {<< >>, NoElements, <<<<<<T_3_pcs>>>>>>, <<<<<< >>, <<T_disponible>>, <<T_12>>>>>>}
ClassStockSelectors ==
    {NoElements, <<<<<<T_rupture>>>>>>, <<<<<<T_disponible>>, <<T_7>>>>>>}
\* nine elements, the only digit in the ninth; or a digit in the first
ClassSpanSelectors ==
    {<< >>,
     <<<<<<T_Viva_Park>>, <<T_Viva_Park>>, <<T_Viva_Park>>, <<T_Viva_Park>>,
        <<T_Viva_Park>>, <<T_Viva_Park>>, <<T_Viva_Park>>, <<T_Viva_Park>>, <<T_7>>>>>>,
     <<<<<<T_12>>, <<T_7>>>>>>}

ClassRows ==
    [text : ClassRowTexts, qty : ClassQtySelectors, stock : ClassStockSelectors,
     span : ClassSpanSelectors, staleLater : BOOLEAN]

----------------------------------------------------------------------------
(* Inputs of the CSV import *)

T_90_00_comma == <<"9", "0", ",", "0", "0">>
T_100 == <<"1", "0", "0">>

CsvRow(jumia_sku, jysk_url, reference_price) ==
    [jumia_sku |-> jumia_sku, jysk_url |-> jysk_url, reference_price |-> reference_price]

\* rows of a CSV file after strip(): two good rows, a row repeating the sku
\* of the first, a row with a thousands separator, a row whose price is not
\* a number, and rows with an empty sku, url or price
CsvRows ==
    {CsvRow(10, TRUE, T_199_00), CsvRow(20, TRUE, T_90_00_comma),
     CsvRow(10, TRUE, T_179), CsvRow(30, TRUE, T_1234_50_thousands),
     CsvRow(30, TRUE, T_words), CsvRow(0, TRUE, T_100),
     CsvRow(40, FALSE, T_100), CsvRow(40, TRUE, << >>)}

\* data rows of a CSV file
MaxCsvRows == 2

CsvFiles == SeqsUpTo(CsvRows, MaxCsvRows)

\* import_products_from_csv calls of a run
MaxImports == 1

----------------------------------------------------------------------------
(* The parts of the state a specification leaves alone *)

ClassIdle ==
    /\ classRow = RowStale
    /\ classResult = << >>

ImportIdle ==
    /\ productSeq = 0
    /\ importFile = << >>
    /\ importRaised = FALSE
    /\ imports = 0

DriverIdle ==
    /\ products = << >>
    /\ snapshots = << >>
    /\ queue = << >>
    /\ pos = 1
    /\ pc = "idle"
    /\ visited = << >>
    /\ last = << >>
    /\ cycles = 0

PriceIdle ==
    /\ pricePage = NoPricePage
    /\ priceResult = << >>

EvalIdle ==
    /\ config \in {c \in Configs : c.min_hours = 0 /\ c.telegram = "ok"
                                   /\ ~c.price_enabled}
    /\ now = 0
    /\ alerts = << >>
    /\ outbox = << >>
    /\ call = << >>
    /\ calls = 0

ScanIdle ==
    /\ scanPage = NoListPage
    /\ scanTarget = Viva
    /\ scanPc = "returned"
    /\ scanIter = 1
    /\ scanRenders = 0
    /\ scanPauses = 0
    /\ scanResult = << >>

StockIdle ==
    /\ stockPage = NoListPage
    /\ stockResult = << >>

----------------------------------------------------------------------------
(* Specification of the price extractor *)

InitPrice ==
    /\ pricePage \in PricePages
    /\ priceResult = << >>
    /\ EvalIdle /\ ScanIdle /\ StockIdle /\ DriverIdle /\ ClassIdle /\ ImportIdle

ExtractPrice ==
    /\ priceResult = << >>
    /\ priceResult' = <<extract_price(pricePage)>>
    /\ UNCHANGED <<pricePage, evalVars, scanVars, stockVars, driverVars>>
    /\ UNCHANGED <<classVars, importVars>>

NextPrice == ExtractPrice

SpecPrice == InitPrice /\ [][NextPrice]_vars

----------------------------------------------------------------------------
(* Specification of the evaluator: check_alerts called on drawn facts *)

InitEval ==
    /\ PriceIdle /\ ScanIdle /\ StockIdle /\ DriverIdle /\ ClassIdle /\ ImportIdle
    /\ config \in Configs
    /\ now = 0
    /\ alerts = << >>
    /\ outbox = << >>
    /\ call = << >>
    /\ calls = 0

\* one call of check_alerts, made when the clock has advanced by d
CheckAlerts ==
    /\ calls < MaxCalls
    /\ \E d \in Elapsed, product_id \in ProductIds, facts \in FactCases :
          LET r == check_alerts(alerts, outbox, config, now + d, product_id,
                                facts[2], PriceInfo(facts[1][1], << >>, FALSE),
                                facts[1][2], product_id)
          IN /\ now' = now + d
             /\ alerts' = r.alerts
             /\ outbox' = r.outbox
             /\ call' = <<r.decided>>
    /\ calls' = calls + 1
    /\ UNCHANGED <<priceVars, config, scanVars, stockVars, driverVars>>
    /\ UNCHANGED <<classVars, importVars>>

NextEval == CheckAlerts

SpecEval == InitEval /\ [][NextEval]_vars

----------------------------------------------------------------------------
(* Specification of the scanner: find_store_row step by step *)

InitScan ==
    /\ PriceIdle /\ EvalIdle /\ StockIdle /\ DriverIdle /\ ClassIdle /\ ImportIdle
    /\ scanPage \in {p \in ListPages : ~p.captureFails}
    /\ scanTarget \in TargetNames
    /\ scanPc = "scan"
    /\ scanIter = 1
    /\ scanRenders = 0
    /\ scanPauses = 0
    /\ scanResult = << >>

\* the index of the row this pass returns, 0 when it finds none
PassMatch == ScanPass(RenderedRows(scanPage, scanRenders), _norm(<<scanTarget>>))

\* the body of one pass up to the end of the loop over the rendered rows
ScanRows ==
    /\ scanPc = "scan"
    /\ \/ /\ scanPage.scanFault = scanIter
          /\ scanPc' = "raised"
          /\ UNCHANGED scanResult
       \/ /\ scanPage.scanFault # scanIter
          /\ PassMatch # 0
          /\ scanPc' = "returned"
          /\ scanResult' = <<RenderedRows(scanPage, scanRenders)[PassMatch]>>
       \/ /\ scanPage.scanFault # scanIter
          /\ PassMatch = 0
          /\ scanPc' = "render"
          /\ UNCHANGED scanResult
    /\ UNCHANGED <<scanPage, scanTarget, scanIter, scanRenders, scanPauses>>
    /\ UNCHANGED <<priceVars, evalVars, stockVars, driverVars>>
    /\ UNCHANGED <<classVars, importVars>>

\* the end of a pass: one more pass, or return None after the last one
EndPass ==
    /\ scanRenders' = scanRenders + 1
    /\ scanPauses' = scanPauses + 1
    /\ IF scanIter = ScanPasses
       THEN scanPc' = "returned" /\ UNCHANGED scanIter
       ELSE scanPc' = "scan" /\ scanIter' = scanIter + 1
    /\ UNCHANGED <<scanPage, scanTarget, scanResult>>
    /\ UNCHANGED <<priceVars, evalVars, stockVars, driverVars>>
    /\ UNCHANGED <<classVars, importVars>>

\* container.evaluate(scrollBy), then the pause
ScrollContainer ==
    /\ scanPc = "render"
    /\ scanPage.scrollable
    /\ EndPass

\* the container cannot be scrolled: keyboard PageDown, then the pause
PressPageDown ==
    /\ scanPc = "render"
    /\ ~scanPage.scrollable
    /\ EndPass

NextScan == ScanRows \/ ScrollContainer \/ PressPageDown

SpecScan == InitScan /\ [][NextScan]_vars

----------------------------------------------------------------------------
(* Specification of the stock extraction *)

InitStock ==
    /\ PriceIdle /\ EvalIdle /\ ScanIdle /\ DriverIdle /\ ClassIdle /\ ImportIdle
    /\ stockPage \in ListPages
    /\ stockResult = << >>

ExtractStock ==
    /\ stockResult = << >>
    /\ stockResult' = <<extract_stock_info(stockPage, StoreNames(config))>>
    /\ UNCHANGED <<stockPage, priceVars, evalVars, scanVars, driverVars>>
    /\ UNCHANGED <<classVars, importVars>>

NextStock == ExtractStock

SpecStock == InitStock /\ [][NextStock]_vars

----------------------------------------------------------------------------
(* Specification of the classifier *)

InitClassify ==
    /\ PriceIdle /\ EvalIdle /\ ScanIdle /\ StockIdle /\ DriverIdle /\ ImportIdle
    /\ classRow \in ClassRows
    /\ classResult = << >>

Classify ==
    /\ classResult = << >>
    /\ classResult' = <<extract_qty_from_row(classRow)>>
    /\ UNCHANGED <<classRow, priceVars, evalVars, scanVars, stockVars, driverVars,
                   importVars>>

NextClassify == Classify

SpecClassify == InitClassify /\ [][NextClassify]_vars

----------------------------------------------------------------------------
(* Specification of the CSV import *)

\* the largest id the table has handed out
MaxId(table) ==
    IF table = << >> THEN 0
    ELSE CHOOSE n \in {table[i].id : i \in 1..Len(table)} :
             \A i \in 1..Len(table) : table[i].id <= n

InitImport ==
    /\ PriceIdle /\ EvalIdle /\ ScanIdle /\ StockIdle /\ ClassIdle
    /\ products \in ProductTables \cup {<< >>}
    /\ productSeq = MaxId(products)
    /\ importFile = << >>
    /\ importRaised = FALSE
    /\ imports = 0
    /\ snapshots = << >>
    /\ queue = << >>
    /\ pos = 1
    /\ pc = "idle"
    /\ visited = << >>
    /\ last = << >>
    /\ cycles = 0

\* the import-csv command, run while no monitoring cycle is under way
ImportFrom(files, limit) ==
    /\ pc = "idle"
    /\ imports < limit
    /\ \E file \in files :
       \E done \in {import_products_from_csv(products, productSeq, file)} :
          /\ products' = done.products
          /\ productSeq' = done.productSeq
          /\ importRaised' = done.raised
          /\ importFile' = <<[file |-> file, before |-> products]>>
    /\ imports' = imports + 1
    /\ UNCHANGED <<priceVars, evalVars, scanVars, stockVars, classVars,
                   snapshots, queue, pos, pc, visited, last, cycles>>

ImportCsv == ImportFrom(CsvFiles, MaxImports)

NextImport == ImportCsv

SpecImport == InitImport /\ [][NextImport]_vars

----------------------------------------------------------------------------
(* Specification of the batch driver: run_monitoring_cycle *)

Init ==
    /\ PriceIdle /\ ScanIdle /\ StockIdle /\ ClassIdle
    /\ config \in DriverConfigs
    /\ now = 0
    /\ alerts = << >>
    /\ outbox = << >>
    /\ call = << >>
    /\ calls = 0
    /\ products \in ProductTables
    /\ productSeq = MaxId(products)
    /\ importFile = << >>
    /\ importRaised = FALSE
    /\ imports = 0
    /\ snapshots = << >>
    /\ queue = << >>
    /\ pos = 1
    /\ pc = "idle"
    /\ visited = << >>
    /\ last = << >>
    /\ cycles = 0

\* run_monitoring_cycle up to its for loop: the active products are fetched;
\* with none of them the cycle returns at once
BeginCycle(limit, gaps) ==
    /\ pc = "idle"
    /\ cycles < limit
    /\ \E d \in gaps : now' = now + d
    /\ queue' = ActiveProducts(products)
    /\ pos' = 1
    /\ visited' = << >>
    /\ last' = << >>
    /\ call' = << >>
    /\ pc' = IF ActiveProducts(products) = << >> THEN "idle" ELSE "loop"
    /\ cycles' = cycles + 1
    /\ UNCHANGED <<priceVars, config, alerts, outbox, calls, scanVars, stockVars,
                   products, snapshots>>
    /\ UNCHANGED <<classVars, importVars>>

StartCycle == BeginCycle(MaxCycles, Elapsed)

\* one pass of the for loop: scrape, save the snapshot, check the alerts
\* when there is a stock fact or a usable price; an exception of the pass
\* (here: the snapshot store failing) is logged and the loop goes on
ProcessFrom(pages) ==
    /\ pc = "loop"
    /\ pos <= Len(queue)
    /\ \E page \in pages :
       \E scraped \in {scrape_product_info(page, StoreNames(config))} :
       \E save_fails \in BOOLEAN :
          LET product == queue[pos]
              t == now + SettleSeconds
              checked == /\ ~save_fails
                         /\ \/ scraped.stock_info # << >>
                            \/ scraped.price_info.current_price > 0
              r == check_alerts(alerts, outbox, config, t, product.id,
                                scraped.stock_info, scraped.price_info,
                                product.reference_price, product.jumia_sku)
          IN /\ now' = t
             /\ snapshots' = IF save_fails THEN snapshots
                             ELSE snapshots \o save_snapshot(product.id, scraped.stock_info,
                                                             scraped.price_info, t)
             /\ alerts' = IF checked THEN r.alerts ELSE alerts
             /\ outbox' = IF checked THEN r.outbox ELSE outbox
             /\ call' = IF checked THEN <<r.decided>> ELSE << >>
             /\ calls' = IF checked THEN calls + 1 ELSE calls
             /\ last' = <<[page |-> page, product |-> product, scraped |-> scraped,
                           save_failed |-> save_fails, checked |-> checked]>>
             /\ visited' = Append(visited, [id |-> product.id,
                                            caught |-> scraped.caught,
                                            save_failed |-> save_fails])
    /\ pos' = pos + 1
    /\ UNCHANGED <<priceVars, config, scanVars, stockVars, products, queue, pc, cycles>>
    /\ UNCHANGED <<classVars, importVars>>

ProcessProduct == ProcessFrom(MonitorPages)

\* the loop is over: the browser is closed and the cycle completes
EndCycle ==
    /\ pc = "loop"
    /\ pos > Len(queue)
    /\ pc' = "idle"
    /\ UNCHANGED <<priceVars, evalVars, scanVars, stockVars,
                   products, snapshots, queue, pos, visited, last, cycles>>
    /\ UNCHANGED <<classVars, importVars>>

Next == StartCycle \/ ProcessProduct \/ EndCycle

Spec == Init /\ [][Next]_vars

----------------------------------------------------------------------------
(* Specification of monitoring cycles interleaved with imports: the monitor
   and import-csv commands of main run one after the other, in any order,
   over the same database *)

\* monitoring cycles and imports of a run
MaxReimportCycles == 2
MaxReimports == 1

\* a command is started any time after the earlier one: right away, or an
\* hour later
ReimportGaps == {SettleSeconds, SecondsPerHour}

\* the page yields the stock of the stores, or only a price
ReimportPages == {PageOk, PageNoButton}

\* the CSV lists the product already in the table again, alone or after a
\* new product
ReimportFiles ==
    {<<CsvRow(10, TRUE, T_199_00)>>,
     <<CsvRow(20, TRUE, T_100), CsvRow(10, TRUE, T_199_00)>>}

InitReimport ==
    /\ PriceIdle /\ ScanIdle /\ StockIdle /\ ClassIdle
    /\ config \in {c \in DriverConfigs : c.telegram = "ok"}
    /\ now = 0
    /\ alerts = << >>
    /\ outbox = << >>
    /\ call = << >>
    /\ calls = 0
    /\ products = <<Product(1, 10, 199 * Milli, TRUE)>>
    /\ productSeq = MaxId(products)
    /\ importFile = << >>
    /\ importRaised = FALSE
    /\ imports = 0
    /\ snapshots = << >>
    /\ queue = << >>
    /\ pos = 1
    /\ pc = "idle"
    /\ visited = << >>
    /\ last = << >>
    /\ cycles = 0

MonitorCommand == BeginCycle(MaxReimportCycles, ReimportGaps)

MonitorProduct == ProcessFrom(ReimportPages)

ImportCommand == ImportFrom(ReimportFiles, MaxReimports)

NextReimport == MonitorCommand \/ MonitorProduct \/ EndCycle \/ ImportCommand

SpecReimport == InitReimport /\ [][NextReimport]_vars

----------------------------------------------------------------------------
(* Claims about the evaluator, checked under SpecEval *)

\* the cooldown window of the configuration, in seconds
CooldownWindow == config.min_hours * SecondsPerHour

\* the rows of kind alert_type the last call appended for its product: the
\* clock advances between calls, so they are the rows stamped `now`
RowsOfCall(alert_type) ==
    {i \in 1..Len(alerts) :
        /\ alerts[i].product_id = call[1].product_id
        /\ alerts[i].alert_type = alert_type
        /\ alerts[i].sent_at = now}

MessagesOfCall(kind) ==
    {i \in 1..Len(outbox) :
        /\ outbox[i].product_id = call[1].product_id
        /\ outbox[i].kind = kind
        /\ outbox[i].at = now}

\* the cooldown gate, stated on the table as it was before the last call:
\* every earlier alert of that kind for the product is a full window old
GatePermitted(alert_type) ==
    \A i \in 1..Len(alerts) :
        (/\ alerts[i].product_id = call[1].product_id
         /\ alerts[i].alert_type = alert_type
         /\ alerts[i].sent_at < now)
        => now - alerts[i].sent_at >= CooldownWindow

\* C1: for every product and alert kind, two alerts of that kind are never
\* recorded, and two messages of that kind never delivered, less than the
\* cooldown window (min_hours_between_same_alert hours) apart: of two calls
\* within the window whose trigger holds, the second is suppressed.
C1_CooldownAtMostOne ==
    /\ \A i, j \in 1..Len(alerts) :
           (/\ i < j
            /\ alerts[i].product_id = alerts[j].product_id
            /\ alerts[i].alert_type = alerts[j].alert_type)
           => alerts[j].sent_at - alerts[i].sent_at >= CooldownWindow
    /\ \A i, j \in 1..Len(outbox) :
           (/\ i < j
            /\ outbox[i].product_id = outbox[j].product_id
            /\ outbox[i].kind = outbox[j].kind)
           => outbox[j].at - outbox[i].at >= CooldownWindow

\* a second call inside the window, its price trigger and its stock rule both
\* holding, was suppressed for both kinds
C1_Witness ==
    /\ call # << >>
    /\ CooldownWindow > 0
    /\ call[1].trigger /\ ~call[1].price_alert
    /\ call[1].below /\ ~call[1].stock_alert
    /\ \E i \in 1..Len(alerts) :
           /\ alerts[i].product_id = call[1].product_id
           /\ alerts[i].alert_type = "price_change"
           /\ now - alerts[i].sent_at < CooldownWindow
           /\ now - alerts[i].sent_at > 0

\* C5: with both prices usable, percentage mode with threshold P triggers
\* iff the current price lies at least P percent of the reference price
\* away from it (P = 5, reference 100: 104 does not trigger, 106 does);
\* with percentage mode disabled the trigger is a difference of at least
\* 0.01 currency units.
C5_ThresholdModeSelection ==
    call # << >> =>
        LET cur == call[1].price_info.current_price
            ref == call[1].reference_price
            P == config.threshold.value
        IN (cur > 0 /\ ref > 0) =>
            /\ (config.price_enabled /\ config.threshold.key = "number") =>
                   /\ call[1].trigger <=>
                          (\/ 100 * cur >= (100 + P) * ref
                           \/ 100 * cur <= (100 - P) * ref)
                   /\ (P = 5 /\ ref = 100 * Milli /\ cur = 104 * Milli)
                          => ~call[1].trigger
                   /\ (P = 5 /\ ref = 100 * Milli /\ cur = 106 * Milli)
                          => call[1].trigger
            /\ ~config.price_enabled =>
                   (call[1].trigger <=>
                        (100 * cur >= 100 * ref + Milli \/ 100 * cur <= 100 * ref - Milli))

\* percentage mode at 5 percent and a price exactly 5 percent above the
\* reference: the trigger holds
C5_Witness ==
    /\ call # << >>
    /\ config.price_enabled /\ config.threshold = [key |-> "number", value |-> 5]
    /\ call[1].reference_price = 100 * Milli
    /\ call[1].price_info.current_price = 105 * Milli
    /\ call[1].trigger

\* C9: a call emits at most one stock_low alert, and emits one iff some
\* StoreStock has a known quantity strictly below the threshold configured
\* for its store and the cooldown gate permits (product, stock_low).
C9_StockRule ==
    call # << >> =>
        LET facts == call[1].stock_info
            below == \E i \in 1..Len(facts), k \in 1..Len(config.stores) :
                         /\ config.stores[k].name = facts[i].store_name
                         /\ facts[i].qty # << >>
                         /\ facts[i].qty[1] < config.stores[k].stock_threshold
        IN /\ Cardinality(RowsOfCall("stock_low")) <= 1
           /\ Cardinality(MessagesOfCall("stock_low")) <= 1
           /\ (RowsOfCall("stock_low") # {}) <=> (below /\ GatePermitted("stock_low"))
           /\ call[1].stock_alert <=> (RowsOfCall("stock_low") # {})

\* two stores below their thresholds, one stock_low alert
C9_Witness ==
    /\ call # << >>
    /\ Cardinality({i \in 1..Len(call[1].stock_info) :
                       BelowLimit(config, call[1].stock_info[i])}) = 2
    /\ Cardinality(RowsOfCall("stock_low")) = 1

\* C10: a call emits a price_change alert, and writes its cooldown record,
\* iff current_price > 0, reference_price > 0, the trigger condition holds
\* and the cooldown gate permits (product, price_change); an unusable price
\* never produces one.
C10_PriceGate ==
    call # << >> =>
        LET cur == call[1].price_info.current_price
            ref == call[1].reference_price
            usable == cur > 0 /\ ref > 0
        IN /\ (RowsOfCall("price_change") # {}) <=>
                  (usable /\ call[1].trigger /\ GatePermitted("price_change"))
           /\ call[1].price_alert <=> (RowsOfCall("price_change") # {})
           /\ ~usable => (RowsOfCall("price_change") = {}
                          /\ MessagesOfCall("price_change") = {})
           /\ Cardinality(RowsOfCall("price_change")) <= 1

\* the sentinel price against a usable reference price: no alert, no record
C10_Witness ==
    /\ call # << >>
    /\ call[1].price_info.current_price = 0
    /\ call[1].reference_price > 0
    /\ GatePermitted("price_change")
    /\ RowsOfCall("price_change") = {}

----------------------------------------------------------------------------
(* Claims about the price extractor, checked under SpecPrice *)

\* C2: every PriceInfo extract_price returns satisfies: is_on_sale implies
\* original_price is present and original_price >= current_price.
C2_OnSaleHasOriginal ==
    priceResult # << >> =>
        (priceResult[1].is_on_sale =>
            /\ priceResult[1].original_price # << >>
            /\ priceResult[1].original_price[1] >= priceResult[1].current_price)

\* C3: the texts "1,234.50" and "1234,50" both parse to 1234.50, and
\* formatting a parsed price and parsing it again yields the same value.
C3_ParseSeparatorsAndRoundTrip ==
    (priceResult # << >> /\ pricePage.promo # Absent /\ pricePage.normal = Absent) =>
        LET got == priceResult[1].current_price IN
        /\ pricePage.promo[1] = T_1234_50_thousands => got = 1234 * Milli + 500
        /\ pricePage.promo[1] = T_1234_50_comma => got = 1234 * Milli + 500
        /\ got > 0 => ParsePrice(FormatPrice(got)) = <<got>>

----------------------------------------------------------------------------
(* Claims about the scanner, checked under SpecScan *)

\* no row of the list, rendered or not, contains the normalized target name
NeverMatches ==
    \A i \in 1..Len(scanPage.list) :
        \/ scanPage.list[i].text = << >>
        \/ ~Contains(_norm(scanPage.list[i].text), _norm(<<scanTarget>>))

ScanEnded == scanPc \in {"returned", "raised"}

\* what is left of the scan shrinks as this grows: it is at most
\* 2 * ScanPasses + 2
ScanProgress ==
    2 * scanIter + (CASE scanPc = "scan" -> 0 [] scanPc = "render" -> 1 [] OTHER -> 2)

\* C6: find_store_row always terminates (until it has ended it is at a step
\* that can be taken, and every step advances a bounded measure); it makes
\* at most 12 passes, each followed by one render-more action and one pause,
\* and when no row ever contains the normalized target name it returns None
\* after the 12th, also when rows throw on reading or the container cannot
\* be scrolled.
C6_ScanTerminates ==
    /\ [](/\ scanIter <= ScanPasses
          /\ scanRenders <= ScanPasses
          /\ scanPauses = scanRenders
          /\ ScanProgress <= 2 * ScanPasses + 2
          /\ (ScanEnded \/ scanPc = "scan" \/ scanPc = "render")
          /\ (scanPc = "returned" /\ NeverMatches) =>
                 /\ scanResult = << >>
                 /\ scanIter = ScanPasses
                 /\ scanRenders = ScanPasses)
    /\ [][ScanProgress' > ScanProgress]_scanVars

\* twelve passes over a list with a stale row, rendered more by PageDown,
\* ended in None
C6_Witness ==
    /\ scanPc = "returned"
    /\ scanResult = << >>
    /\ scanIter = ScanPasses
    /\ scanRenders = ScanPasses
    /\ ~scanPage.scrollable
    /\ \E i \in 1..Len(scanPage.list) : scanPage.list[i].text = << >>
    /\ \E i \in 1..Len(scanPage.list) : scanPage.list[i].text # << >>

----------------------------------------------------------------------------
(* Claims about the stock extraction, checked under SpecStock *)

\* C4: every StoreStock extract_stock_info produces, on every path, has
\* status in_stock iff qty is present and > 0, out_of_stock iff qty is
\* present and = 0, unknown iff qty is absent.
C4_StatusDeterminedByQty ==
    stockResult # << >> =>
        \A i \in 1..Len(stockResult[1]) :
            LET s == stockResult[1][i] IN
            /\ s.status \in {"in_stock", "out_of_stock", "unknown"}
            /\ s.status = "in_stock" <=> (s.qty # << >> /\ s.qty[1] > 0)
            /\ s.status = "out_of_stock" <=> (s.qty # << >> /\ s.qty[1] = 0)
            /\ s.status = "unknown" <=> s.qty = << >>

\* one extraction with a counted row, a sold-out row and a store whose
\* lookup raised
C4_Witness ==
    /\ stockResult # << >>
    /\ stockPage.scanFault = 2
    /\ \E i \in 1..Len(stockResult[1]) :
           stockResult[1][i].status = "in_stock" /\ stockResult[1][i].qty = <<3>>
    /\ \E i \in 1..Len(stockResult[1]) : stockResult[1][i].status = "unknown"
    /\ find_store_row(stockPage, Depot).outcome = "raised"

----------------------------------------------------------------------------
(* Claims about the orchestrator and the batch driver, checked under Spec *)

\* an exception reaches the try block of scrape_product_info from the step
\* page.raises names: navigation and drawer opening are always reached,
\* locale selection and stock extraction once the drawer has opened
StepRaises(page) ==
    \/ page.raises \in {"goto", "drawer"}
    \/ page.raises \in {"city", "stock"} /\ page.button /\ page.overlay

\* price extraction is reached and raises
PriceStepRaises(page) == page.raises # "goto" /\ PriceExtractionRaises(page)

SentinelResult(scraped) ==
    scraped.stock_info = << >> /\ scraped.price_info = PriceInfo0

Ids(s) == [i \in 1..Len(s) |-> s[i].id]

\* whatever failed, the loop has processed exactly the products fetched
\* before the next one, and a completed cycle has processed every active
\* product, in the order of the query
FailureIsolated ==
    /\ pc = "loop" =>
           /\ pos = Len(visited) + 1
           /\ pos <= Len(queue) + 1
           /\ Ids(visited) = SubSeq(Ids(queue), 1, pos - 1)
    /\ (pc = "idle" /\ cycles > 0) =>
           /\ queue = ActiveProducts(products)
           /\ Ids(visited) = Ids(queue)

PriceRowsOfLast ==
    {i \in 1..Len(alerts) :
        /\ alerts[i].product_id = last[1].product.id
        /\ alerts[i].alert_type = "price_change"
        /\ alerts[i].sent_at = now}

\* the cooldown gate of (product, price_change) before the last pass
LastGatePermitted ==
    \A i \in 1..Len(alerts) :
        (/\ alerts[i].product_id = last[1].product.id
         /\ alerts[i].alert_type = "price_change"
         /\ alerts[i].sent_at < now)
        => now - alerts[i].sent_at >= CooldownWindow

\* C8: when open_store_drawer returns false, scrape_product_info returns an
\* empty stock list with the price extract_price returned, unchanged, and
\* the driver (its snapshot saved) still applies the price-change rule to
\* that price: with a usable price check_alerts is called on it, and a
\* price_change alert is recorded iff the rule and the cooldown gate say so.
C8_DrawerFailureKeepsPrice ==
    last # << >> =>
        LET page == last[1].page
            scraped == last[1].scraped
            cur == scraped.price_info.current_price
            ref == last[1].product.reference_price
        IN (page.raises = "none" /\ ~(page.button /\ page.overlay)) =>
            /\ scraped.stock_info = << >>
            /\ scraped.price_info = extract_price(page)
            /\ ~last[1].save_failed =>
                   /\ cur > 0 =>
                          /\ last[1].checked /\ call # << >>
                          /\ call[1].product_id = last[1].product.id
                          /\ call[1].price_info = extract_price(page)
                          /\ call[1].stock_info = << >>
                          /\ call[1].reference_price = ref
                   /\ (PriceRowsOfLast # {}) <=>
                          (/\ cur > 0 /\ ref > 0
                           /\ PriceTrigger(config, cur, ref)
                           /\ LastGatePermitted)

\* no button on a page whose promo price is 179: the stock list is empty
\* and the price_change alert against the reference price is recorded
C8_Witness ==
    /\ last # << >>
    /\ last[1].page = PageNoButton
    /\ last[1].scraped.stock_info = << >>
    /\ last[1].scraped.price_info.current_price = 179 * Milli
    /\ last[1].product.reference_price = 199 * Milli
    /\ PriceRowsOfLast # {}

----------------------------------------------------------------------------
(* Further claims about the evaluator, checked under SpecEval *)

\* C11: check_alerts never itself sends notifications or writes history: in
\* a run made only of check_alerts calls, with no caller acting on returned
\* decisions, the alerts table and the notification channel stay as they
\* were at the start (empty).
C11_EvaluatorLeavesStoreUntouched ==
    alerts = << >> /\ outbox = << >>

----------------------------------------------------------------------------
(* Claims about the classifier, checked under SpecClassify *)

\* the texts of the sub-elements extract_qty_from_row scans, selector by
\* selector, that carry a run of digits
DigitBearing(row) ==
    {i \in 1..Len(SubElementTexts(row)) :
        \E k \in 1..Len(SubElementTexts(row)[i]) : SubElementTexts(row)[i][k] \in Digits}

\* the row text the keyword tiers read: empty when reading it throws
KeywordText(row) ==
    IF row.staleLater \/ row.text = << >> THEN << >> ELSE Lower(row.text[1])

\* C12: whenever some scanned sub-element of the row has a text with a run
\* of digits, the quantity is the integer of the first run of the first
\* such sub-element in strategy order, with that text as evidence, whatever
\* keyword the row text holds ("3 pcs" beats "disponible"); the keyword
\* tiers (unavailable -> 0, else available -> 1, else absent) decide only
\* when no scanned sub-element has a digit.
C12_DigitsBeforeKeywords ==
    classResult # << >> =>
        LET ts == SubElementTexts(classRow)
            hits == DigitBearing(classRow)
            txt == KeywordText(classRow)
            got == classResult[1]
        IN /\ hits # {} =>
                  LET i == CHOOSE h \in hits : \A g \in hits : h <= g
                  IN /\ got.qty = <<IntOf(DigitSearch(ts[i])[1])>>
                     /\ got.raw = ts[i]
           /\ hits = {} =>
                  /\ got.raw = txt
                  /\ got.qty =
                         IF \E k \in UnavailableKeywords : Contains(txt, k) THEN <<0>>
                         ELSE IF \E k \in AvailableKeywords : Contains(txt, k) THEN <<1>>
                         ELSE << >>
           /\ (classRow.qty = <<<<<<T_3_pcs>>>>>>) =>
                  (got.qty = <<3>> /\ got.raw = <<"3", " ", "p", "c", "s">>)

\* a row whose badge reads "3 pcs" and whose text says "disponible": 3
C12_Witness ==
    /\ classResult # << >>
    /\ classRow.qty = <<<<<<T_3_pcs>>>>>>
    /\ Contains(KeywordText(classRow), T_disponible)
    /\ classResult[1].qty = <<3>>

----------------------------------------------------------------------------
(* Further claims about the orchestrator and the driver, checked under Spec *)

\* the scrape reaches stock extraction and nothing escapes from it
StockExtractionReached(page) ==
    page.raises = "none" /\ page.button /\ page.overlay

\* some row among rows has a readable text containing the normalized name
ListedIn(rows, store_name) ==
    \E i \in 1..Len(rows) :
        /\ rows[i].text # << >>
        /\ Contains(_norm(rows[i].text), _norm(<<store_name>>))

OnePerStore(stock_info) ==
    /\ Len(stock_info) = Len(config.stores)
    /\ \A i \in 1..Len(stock_info) : stock_info[i].store_name = config.stores[i].name

\* C13 as stated: each run of the orchestrator for a product produces
\* exactly one StockFact per configured store, in configuration order.
C13_EveryRunOnePerStore ==
    last # << >> => OnePerStore(last[1].scraped.stock_info)

\* C13 amended: a run of the orchestrator that reaches stock extraction
\* (the drawer opened and no exception reached the per-product boundary)
\* produces exactly one StockFact per configured store, in configuration
\* order, a store whose row is not found or whose lookup throws
\* contributing quantity absent and status unknown; every other run
\* produces an empty stock list.
C13_OnePerStoreWhenReached ==
    last # << >> =>
        LET page == last[1].page
            stock_info == last[1].scraped.stock_info
        IN /\ ~StockExtractionReached(page) => stock_info = << >>
           /\ StockExtractionReached(page) =>
                  /\ OnePerStore(stock_info)
                  /\ \A i \in 1..Len(stock_info) :
                         (\/ ~ListedIn(page.list, stock_info[i].store_name)
                          \/ /\ page.scanFault = 2
                             /\ ~ListedIn(RenderedRows(page, 0), stock_info[i].store_name))
                         => (stock_info[i].qty = << >> /\ stock_info[i].status = "unknown")

\* a run whose first store was found and counted, whose second store's
\* lookup threw, and which still produced one StockFact per store
C13_Witness ==
    /\ last # << >>
    /\ last[1].page = PageScanRaises
    /\ Len(last[1].scraped.stock_info) = 3
    /\ last[1].scraped.stock_info[1].qty = <<3>>
    /\ last[1].scraped.stock_info[2].status = "unknown"

----------------------------------------------------------------------------
(* Claims about the CSV import, checked under SpecImport *)

\* a row the claim counts as valid: non-empty sku, url and a numeric
\* reference price, a comma accepted as decimal point
ValidCsvRow(row) ==
    /\ row.jumia_sku # 0
    /\ row.jysk_url
    /\ row.reference_price \in {T_199_00, T_90_00_comma, T_179, T_100}

\* the valid rows of the last imported file, in file order
ValidRowsOfImport == SelectSeq(importFile[1].file, ValidCsvRow)

\* the price a valid row states, in thousandths
StatedPrice(text) ==
    CASE text = T_199_00 -> 199 * Milli
      [] text = T_90_00_comma -> 90 * Milli
      [] text = T_179 -> 179 * Milli
      [] text = T_100 -> 100 * Milli

\* C14: after any call of import_products_from_csv, for any prior contents
\* of the products table and any CSV (one with a repeated jumia_sku
\* included), the table holds exactly one active product per valid CSV row
\* and no product of an earlier import.
C14_DatabaseEqualsCsv ==
    importFile # << >> =>
        /\ Len(products) = Len(ValidRowsOfImport)
        /\ \A i \in 1..Len(products) :
               /\ products[i].active
               /\ products[i].jumia_sku = ValidRowsOfImport[i].jumia_sku
               /\ products[i].reference_price = StatedPrice(ValidRowsOfImport[i].reference_price)
               /\ \A j \in 1..Len(importFile[1].before) :
                      importFile[1].before[j].id # products[i].id

----------------------------------------------------------------------------
(* Claims about delivery and the cooldown record, checked under SpecEval *)

\* the alert row at index i has a delivered message
RowDelivered(i) ==
    \E k \in 1..Len(outbox) :
        /\ outbox[k].product_id = alerts[i].product_id
        /\ outbox[k].kind = alerts[i].alert_type
        /\ outbox[k].at = alerts[i].sent_at

\* C15 as stated: a cooldown record is written only for an alert that was
\* delivered: with the transport disabled, without credentials or failing,
\* check_alerts writes no row to the alerts table.
C15_RecordOnlyWhenDelivered ==
    /\ \A i \in 1..Len(alerts) : RowDelivered(i)
    /\ config.telegram # "ok" => alerts = << >>

\* C15 amended: a cooldown record is written for every alert check_alerts
\* emits, delivered or not: with the transport disabled, without
\* credentials or failing, the call still writes its row to the alerts
\* table while no message is delivered, and that row suppresses a later
\* alert of the same kind for the same product inside the window.
C15_RecordWhetherDelivered ==
    /\ config.telegram # "ok" => outbox = << >>
    /\ config.telegram = "ok" => \A i \in 1..Len(alerts) : RowDelivered(i)
    /\ call # << >> =>
           /\ call[1].price_alert <=> (RowsOfCall("price_change") # {})
           /\ call[1].stock_alert <=> (RowsOfCall("stock_low") # {})
           /\ (call[1].trigger /\ GatePermitted("price_change"))
                  => RowsOfCall("price_change") # {}
           /\ (call[1].trigger /\ ~GatePermitted("price_change"))
                  => RowsOfCall("price_change") = {}

\* the request failed for the first alert, and its row suppressed the
\* second call's price alert inside the window
C15_Witness ==
    /\ call # << >>
    /\ config.telegram = "http_error"
    /\ outbox = << >>
    /\ call[1].trigger /\ ~call[1].price_alert
    /\ \E i \in 1..Len(alerts) :
           /\ alerts[i].product_id = call[1].product_id
           /\ alerts[i].alert_type = "price_change"
           /\ alerts[i].sent_at < now
           /\ now - alerts[i].sent_at < CooldownWindow

\* the last call compared a price with an equal reference price
EqualPrices ==
    /\ call # << >>
    /\ call[1].price_info.current_price = call[1].reference_price

\* C17: no price_change alert is emitted when the extracted current price
\* equals the reference price, whatever the price_monitoring configuration
\* (disabled, enabled with a positive threshold, enabled with threshold 0
\* or without the threshold key) and whatever the cooldown state.
C17_NoAlertAtEqualPrice ==
    EqualPrices => (~call[1].price_alert /\ RowsOfCall("price_change") = {})

----------------------------------------------------------------------------
(* Claims about cycles interleaved with imports, checked under SpecReimport *)

\* two delivered messages of the same kind about the same SKU are at least
\* the cooldown window apart
SkuCooldownKept ==
    \A i \in 1..Len(outbox) : \A j \in 1..Len(outbox) :
        (/\ i < j
         /\ outbox[i].sku = outbox[j].sku
         /\ outbox[i].kind = outbox[j].kind)
            => outbox[j].at - outbox[i].at >= CooldownWindow

\* C16: the cooldown of a product survives a re-import: after an alert of
\* some kind was sent for a SKU and the same SKU was imported again, a
\* monitoring cycle inside the cooldown window sends no second alert of
\* that kind for that SKU.
C16_CooldownSurvivesReimport == SkuCooldownKept

----------------------------------------------------------------------------
(* Claims about the snapshot store, checked under Spec *)

\* the snapshot rows the last pass of the loop wrote for its product that
\* carry the price it extracted
SnapshotsOfLast ==
    {i \in 1..Len(snapshots) :
        /\ snapshots[i].product_id = last[1].product.id
        /\ snapshots[i].fetched_at = now
        /\ snapshots[i].price = last[1].scraped.price_info.current_price}

\* C18: every successfully extracted price is persisted: for each product
\* of a cycle whose scrape returned current_price > 0, save_snapshot appends
\* at least one snapshot row carrying that price, also when the stock list
\* is empty because the store drawer could not be opened.
C18_ExtractedPricePersisted ==
    (/\ last # << >>
     /\ ~last[1].save_failed
     /\ last[1].scraped.price_info.current_price > 0)
        => SnapshotsOfLast # {}

====
